---- MODULE Spec2Model ----
(***************************************************************************)
(* A model of cnelson/evaporation: the torrentReadSeeker stream adapter    *)
(* (proxy/torrent_read_seeker.go), the resolvers (proxy/helpers.go) and    *)
(* the TorrentProxy controller (proxy/proxy.go).                           *)
(***************************************************************************)
EXTENDS Integers, Sequences, FiniteSets, TLC

(***************************************************************************)
(* Bounds of the model.                                                    *)
(***************************************************************************)
\* int64 is modelled as a two's complement integer of IntBits bits.
IntBits == 5
\* Largest length of one file of the torrent.
MaxFileLen == 3
\* Largest caller buffer handed to Read.
MaxBuf == 3
\* Seek offsets are drawn from -MaxSeek..MaxSeek and the two extreme int64s.
MaxSeek == 4

RECURSIVE Pow2(_)
Pow2(n) == IF n = 0 THEN 1 ELSE 2 * Pow2(n - 1)

MaxInt == Pow2(IntBits - 1) - 1
MinInt == 0 - Pow2(IntBits - 1)
Modulus == Pow2(IntBits)
Int64 == MinInt..MaxInt

\* Go's int64 arithmetic wraps around silently.
Wrap(x) == ((x - MinInt) % Modulus) + MinInt

SeekOffsets == {o \in Int64 : (o >= 0 - MaxSeek /\ o <= MaxSeek)} \cup {MinInt, MaxInt}

\* io.SeekStart, io.SeekCurrent, io.SeekEnd.
SeekStart == 0
SeekCurrent == 1
SeekEnd == 2
Whences == {SeekStart, SeekCurrent, SeekEnd}

(***************************************************************************)
(* State.                                                                  *)
(***************************************************************************)
VARIABLES
    files,      \* the torrent's file list: a sequence of [offset, length]
    trsFile,    \* torrentReadSeeker.File: index into files
    readerPos,  \* torrentReadSeeker.Reader: the reader's whole-torrent position
    ret,        \* what the last call on the adapter returned and did
    trail,      \* history: how far a Seek(k, end); Read; Read sequence has got
    readerPos2, \* a second adapter over its own reader (same file)
    ret2,       \* what the last call on the second adapter returned
    input,      \* the argument of a call of one of the resolvers
    output,     \* what that call returned
    proxy,      \* the TorrentProxy: config, client, torrent, httperror
    engine,     \* the torrent client and the torrent it was given
    listening,  \* the HTTP listener is bound and its goroutine serves
    handlers,   \* the calls of ServeHTTP and Status in progress
    run,        \* the goroutine of startHTTPServer and the caller of Run
    process,    \* the proxies of one process, and its DefaultServeMux
    streams     \* the adapters of the file requests being served, and their readers

adapterVars == <<files, trsFile, readerPos, ret, trail, readerPos2, ret2, streams>>
helperVars == <<input, output>>
proxyVars == <<proxy, engine, listening, handlers, run, process>>
vars == <<adapterVars, helperVars, proxyVars>>

(***************************************************************************)
(* The torrent: files laid out back to back in one byte stream.            *)
(***************************************************************************)
RECURSIVE SumLen(_, _)
SumLen(lens, n) == IF n = 0 THEN 0 ELSE lens[n] + SumLen(lens, n - 1)

\* torrent.File.Offset() and Length() of every file, from the lengths.
Layout(lens) ==
    [i \in 1..Len(lens) |-> [offset |-> SumLen(lens, i - 1), length |-> lens[i]]]

\* A torrent of two files, as the test fixture is.  Sizes stay far from the
\* largest int64: a torrent and a buffer together never reach it.
Layouts ==
    {Layout(lens) : lens \in {l \in (0..MaxFileLen) \X (0..MaxFileLen) :
                                  l[1] + l[2] + MaxBuf <= MaxInt}}

TotalLength(fs) == IF Len(fs) = 0 THEN 0 ELSE fs[Len(fs)].offset + fs[Len(fs)].length

\* The byte at a whole-torrent position (never 0, the value of a fresh buffer).
Byte(i) == i + 1

NoRet == [op |-> "none", offset |-> 0, whence |-> 0, buflen |-> 0, got |-> 0,
          n |-> 0, err |-> "nil", data |-> <<>>, hints |-> <<>>,
          fault |-> FALSE, start |-> 0, before |-> 0, rwhence |-> 0]

NoTrail == [stage |-> 0, k |-> 0, full |-> TRUE]

(***************************************************************************)
(* torrent.Reader, as the adapter uses it.                                 *)
(***************************************************************************)
\* Reader.Seek(off, whence): the reader stores the position it is given.
ReaderSeek(total, pos, off, whence) ==
    IF whence = SeekStart THEN Wrap(off)
    ELSE IF whence = SeekCurrent THEN Wrap(pos + off)
    ELSE Wrap(total + off)

\* Reader.Read(buf): the bytes the reader can deliver at pos into a buffer
\* of size bufsize; got of them arrive before the read ends.
ReaderAvail(total, pos, bufsize) ==
    IF pos < 0 \/ pos >= total THEN 0
    ELSE IF total - pos < bufsize THEN total - pos ELSE bufsize

(***************************************************************************)
(* torrentReadSeeker.Seek                                                  *)
(***************************************************************************)
\* A translation that does not keep an end-relative target at or after the
\* start of the file.
SeekTargetNoFloor(f, offset, whence) ==
    LET max == Wrap(f.offset + f.length)
        o1 == IF whence = SeekStart
              THEN (IF Wrap(f.offset + offset) > max THEN max
                    ELSE Wrap(f.offset + offset))
              ELSE offset
        o2 == IF whence = SeekEnd THEN Wrap(max - o1) ELSE o1
    IN [offset |-> o2, whence |-> IF whence = SeekEnd THEN SeekStart ELSE whence]

\* The offset and whence handed to Reader.Seek.
SeekTarget(f, offset, whence) ==
    LET max == Wrap(f.offset + f.length)
        o1 == IF whence = SeekStart
              THEN (IF Wrap(f.offset + offset) > max THEN max
                    ELSE Wrap(f.offset + offset))
              ELSE offset
        o2 == IF whence = SeekEnd
              THEN (IF Wrap(max - o1) < f.offset THEN f.offset
                    ELSE Wrap(max - o1))
              ELSE o1
    IN [offset |-> o2, whence |-> IF whence = SeekEnd THEN SeekStart ELSE whence]

\* Seek(offset, whence) on an adapter for file f whose reader is at pos:
\* the reader's new position and the returned file-relative position.
SeekOp(fs, f, pos, offset, whence) ==
    LET t == SeekTarget(f, offset, whence)
        p == ReaderSeek(TotalLength(fs), pos, t.offset, t.whence)
    IN [pos |-> p, n |-> Wrap(p - f.offset), err |-> "nil", rwhence |-> t.whence]

(***************************************************************************)
(* torrentReadSeeker.Read                                                  *)
(***************************************************************************)
\* A Read that trusts the reader's position as it finds it.
ReadStartNoSeek(fs, f, pos) == pos

\* The position Read starts from: file-relative 0 when the reader is
\* before the file.
ReadStart(fs, f, pos) ==
    IF pos < f.offset THEN SeekOp(fs, f, pos, 0, SeekStart).pos ELSE pos

\* The clamped size of the read.
ReadSize(f, start, buflen) ==
    LET eof == Wrap(f.offset + f.length)
    IN IF Wrap(start + buflen) > eof THEN Wrap(eof - start) ELSE buflen

\* Read(p) with len(p) = buflen, the reader delivering got bytes.
ReadOp(fs, f, pos, buflen, got) ==
    LET start == ReadStart(fs, f, pos)
        bufsize == ReadSize(f, start, buflen)
    IN IF bufsize = 0
       THEN [pos |-> start, n |-> 0, err |-> "EOF", data |-> <<>>,
             hints |-> <<>>, fault |-> FALSE, start |-> start]
       ELSE IF bufsize < 0
       THEN \* make([]byte, bufsize) panics
            [pos |-> start, n |-> 0, err |-> "panic", data |-> <<>>,
             hints |-> <<>>, fault |-> TRUE, start |-> start]
       ELSE LET m == IF got < ReaderAvail(TotalLength(fs), start, bufsize)
                     THEN got ELSE ReaderAvail(TotalLength(fs), start, bufsize)
                buf == [j \in 1..bufsize |->
                           IF j <= m THEN Byte(start + j - 1) ELSE 0]
                copied == IF buflen < bufsize THEN buflen ELSE bufsize
            IN [pos |-> start + m, n |-> copied, err |-> "nil",
                data |-> SubSeq(buf, 1, copied),
                hints |-> <<[off |-> Wrap(start - f.offset), len |-> bufsize]>>,
                fault |-> FALSE, start |-> start]

(***************************************************************************)
(* The adapter's operations.                                               *)
(***************************************************************************)
\* What a call made with the reader at pos returned; before is pos and
\* rwhence the whence Seek handed to the reader.
SeekRet(pos, offset, whence, r) ==
    [op |-> "Seek", offset |-> offset, whence |-> whence, buflen |-> 0,
     got |-> 0, n |-> r.n, err |-> r.err, data |-> <<>>, hints |-> <<>>,
     fault |-> FALSE, start |-> 0, before |-> pos, rwhence |-> r.rwhence]

ReadRet(pos, buflen, got, r) ==
    [op |-> "Read", offset |-> 0, whence |-> 0, buflen |-> buflen,
     got |-> got, n |-> r.n, err |-> r.err, data |-> r.data,
     hints |-> r.hints, fault |-> r.fault, start |-> r.start,
     before |-> pos, rwhence |-> 0]

\* What the reader may deliver to a Read: everything asked for, or fewer
\* bytes when the read ends early.
Deliverable(fs, f, pos, buflen) ==
    LET start == ReadStart(fs, f, pos)
        size == ReadSize(f, start, buflen)
    IN 0..(IF size > 0 THEN ReaderAvail(TotalLength(fs), start, size) ELSE 0)

\* History of a Seek(k, end) with 0 <= k <= length, the Read into a buffer
\* of at least k bytes that follows it, and the Read after that.
TrailSeek(f, offset, whence) ==
    IF whence = SeekEnd /\ offset >= 0 /\ offset <= f.length
    THEN [stage |-> 1, k |-> offset, full |-> TRUE]
    ELSE NoTrail

TrailRead(buflen, got, size) ==
    IF trail.stage = 1 /\ trail.k > 0 /\ buflen >= trail.k
    THEN [stage |-> 2, k |-> trail.k, full |-> (got = size)]
    ELSE IF trail.stage = 2 \/ (trail.stage = 1 /\ trail.k = 0)
    THEN [stage |-> 3, k |-> trail.k, full |-> trail.full]
    ELSE NoTrail

NoCall == [op |-> "none"]

\* The request handlers that may run at the same time.
Handlers == {"h1", "h2"}

NoConfig == [TorrentURL |-> "", DHTNodes |-> <<>>, HTTPListenAddr |-> "",
             TorrentListenAddr |-> ""]

\* No TorrentProxy has been created.
NoProxy == [built |-> FALSE, config |-> NoConfig, client |-> FALSE,
            torrent |-> FALSE, httperror |-> FALSE, err |-> "nil",
            steps |-> <<>>, lastClose |-> "none"]

NoEngine == [client |-> "none", closes |-> 0, nodht |-> FALSE, nodes |-> <<>>,
             added |-> FALSE, info |-> FALSE, tfiles |-> <<>>, pieces |-> <<>>]

IdleHandler == [pc |-> "idle", call |-> "none", path |-> <<>>,
                status |-> "none", snapshot |-> <<>>, code |-> 0,
                body |-> "none", fault |-> "none", hints |-> 0,
                reader |-> FALSE, file |-> 0, listed |-> <<>>,
                calls |-> <<>>]

\* http.Serve has not returned and Run has not been called.
NoRun == [server |-> "serving", serveErr |-> "nil", caller |-> "idle",
          err |-> "nil"]

\* The proxies a process may hold at the same time.
Instances == {"p1", "p2"}

\* A proxy that was not constructed: handler is what its listener was given
\* to serve with.
NoInstance == [built |-> FALSE, config |-> NoConfig, err |-> "nil",
               listening |-> FALSE, handler |-> "none", fault |-> FALSE]

\* A process without proxies: nothing is registered with DefaultServeMux
\* and no request was made.
NoProcess == [mux |-> "none", inst |-> [i \in Instances |-> NoInstance],
              req |-> [listener |-> "none", servedBy |-> "none"]]

ProxyIdle ==
    /\ proxy = NoProxy
    /\ engine = NoEngine
    /\ listening = FALSE
    /\ handlers = [h \in Handlers |-> IdleHandler]
    /\ run = NoRun
    /\ process = NoProcess

\* The file requests that may be served at the same time.
Requests == {"q1", "q2"}

\* What a call on an adapter returned.
NoResult == [op |-> "none", n |-> 0, err |-> "nil", data |-> <<>>]

\* No adapter was made for a request: File is the index of its file, Reader
\* the reader it holds.
NoStream == [open |-> FALSE, File |-> 0, Reader |-> "none", ret |-> NoResult]

\* No file request is being served; pos is the position of each reader.
StreamsIdle ==
    streams = [adapter |-> [q \in Requests |-> NoStream],
               pos |-> [q \in Requests |-> 0]]

\* No resolver is being called.
HelpersIdle ==
    /\ input = NoCall
    /\ output = NoCall

Init ==
    /\ files \in Layouts
    /\ trsFile \in 1..Len(files)
    /\ readerPos = 0
    /\ ret = NoRet
    /\ trail = NoTrail
    /\ readerPos2 = 0
    /\ ret2 = NoRet
    /\ HelpersIdle
    /\ ProxyIdle
    /\ StreamsIdle

Seek ==
    /\ ~ret.fault
    /\ \E offset \in SeekOffsets, whence \in Whences :
          LET r == SeekOp(files, files[trsFile], readerPos, offset, whence)
          IN /\ readerPos' = r.pos
             /\ ret' = SeekRet(readerPos, offset, whence, r)
             /\ trail' = TrailSeek(files[trsFile], offset, whence)
    /\ UNCHANGED <<files, trsFile, readerPos2, ret2, streams, helperVars, proxyVars>>

Read ==
    /\ ~ret.fault
    /\ \E buflen \in 0..MaxBuf :
          \E got \in Deliverable(files, files[trsFile], readerPos, buflen) :
             LET r == ReadOp(files, files[trsFile], readerPos, buflen, got)
             IN /\ readerPos' = r.pos
                /\ ret' = ReadRet(readerPos, buflen, got, r)
                /\ trail' = TrailRead(buflen, got,
                       ReadSize(files[trsFile], r.start, buflen))
    /\ UNCHANGED <<files, trsFile, readerPos2, ret2, streams, helperVars, proxyVars>>

Next == Seek \/ Read

Spec == Init /\ [][Next]_vars

(***************************************************************************)
(* Two adapters for the same file, each over its own fresh reader: the     *)
(* first is only read, the second is first sent to Seek(0, start), and     *)
(* then both get the same Reads.                                           *)
(***************************************************************************)
SeekFirst ==
    /\ ret.op = "none"
    /\ ret2.op = "none"
    /\ LET r == SeekOp(files, files[trsFile], readerPos2, 0, SeekStart)
       IN /\ readerPos2' = r.pos
          /\ ret2' = SeekRet(readerPos2, 0, SeekStart, r)
    /\ UNCHANGED <<files, trsFile, readerPos, ret, trail, streams, helperVars, proxyVars>>

ReadBoth ==
    /\ ret2.op # "none"
    /\ ~ret.fault /\ ~ret2.fault
    /\ \E buflen \in 0..MaxBuf :
          \E got \in Deliverable(files, files[trsFile], readerPos2, buflen) :
             LET r1 == ReadOp(files, files[trsFile], readerPos, buflen, got)
                 r2 == ReadOp(files, files[trsFile], readerPos2, buflen, got)
             IN /\ readerPos' = r1.pos
                /\ ret' = ReadRet(readerPos, buflen, got, r1)
                /\ readerPos2' = r2.pos
                /\ ret2' = ReadRet(readerPos2, buflen, got, r2)
    /\ UNCHANGED <<files, trsFile, trail, streams, helperVars, proxyVars>>

NextEquiv == SeekFirst \/ ReadBoth

SpecEquiv == Init /\ [][NextEquiv]_vars

(***************************************************************************)
(* The resolvers (helpers.go).                                             *)
(***************************************************************************)
\* Largest number of entries of a DHT node list handed to resolveDHTNodes.
MaxNodes == 3

\* host:port strings of the tests; net.ResolveUDPAddr accepts the first two
\* and rejects the others (bad port, no port, unknown host).
GoodHostPorts == {"192.0.2.1:1234", "[2001:db8::1]:1234"}
BadHostPorts == {"192.0.2.1:99999", "192.0.2.1"}
HostPorts == GoodHostPorts \cup BadHostPorts

\* net.ResolveUDPAddr("udp", hostport)
ResolveUDPAddr(hostport) ==
    IF hostport \in GoodHostPorts
    THEN [addr |-> [udp |-> hostport], err |-> "nil"]
    ELSE [addr |-> [udp |-> ""], err |-> "invalid address"]

\* dht.GlobalBootstrapAddrs(): the bootstrap nodes built into the engine,
\* looked up by name; dns says whether the lookups succeed.
GlobalBootstrapAddrs(dns) ==
    IF dns
    THEN [addrs |-> <<[udp |-> "router.bittorrent.com:6881"]>>, err |-> "nil"]
    ELSE [addrs |-> <<>>, err |-> "nothing resolved"]

\* The loop of resolveDHTNodes from entry i on, resolved holding the
\* addresses of the entries before i.
RECURSIVE resolveLoop(_, _, _)
resolveLoop(nodes, i, resolved) ==
    IF i > Len(nodes)
    THEN [nodes |-> resolved, err |-> "nil"]
    ELSE LET r == ResolveUDPAddr(nodes[i])
         IN IF r.err # "nil"
            THEN [nodes |-> resolved, err |-> r.err]
            ELSE resolveLoop(nodes, i + 1, Append(resolved, r.addr))

\* resolveDHTNodes(nodes)
resolveDHTNodes(nodes) == resolveLoop(nodes, 1, <<>>)

\* A resolver with a fallback that returns what it resolved, whatever it is.
resolveDHTNodesNoDefault(nodes, dns) == resolveLoop(nodes, 1, <<>>)

\* resolveDHTNodes(nodes) of proxy/helpers.go, which falls back on the
\* built-in bootstrap list.
resolveDHTNodesDefault(nodes, dns) ==
    LET r == resolveLoop(nodes, 1, <<>>)
    IN IF r.err # "nil" THEN r
       ELSE IF Len(r.nodes) = 0
       THEN [nodes |-> GlobalBootstrapAddrs(dns).addrs,
             err |-> GlobalBootstrapAddrs(dns).err]
       ELSE r

RECURSIVE SeqsUpTo(_, _)
SeqsUpTo(S, n) ==
    IF n = 0 THEN {<<>>}
    ELSE LET shorter == SeqsUpTo(S, n - 1)
         IN shorter \cup {Append(q, x) : q \in shorter, x \in S}

NodeLists == SeqsUpTo(HostPorts, MaxNodes)

InitHelpers ==
    /\ files = Layout(<<0, 0>>)
    /\ trsFile = 1
    /\ readerPos = 0
    /\ ret = NoRet
    /\ trail = NoTrail
    /\ readerPos2 = 0
    /\ ret2 = NoRet
    /\ HelpersIdle
    /\ ProxyIdle
    /\ StreamsIdle

CallResolveDHTNodes ==
    /\ \E nodes \in NodeLists, dns \in BOOLEAN :
          /\ input' = [op |-> "resolveDHTNodes", nodes |-> nodes, dns |-> dns]
          /\ output' = [op |-> "resolveDHTNodes"] @@ resolveDHTNodes(nodes)
    /\ UNCHANGED <<adapterVars, proxyVars>>

CallResolveDHTNodesDefault ==
    /\ \E nodes \in NodeLists, dns \in BOOLEAN :
          /\ input' = [op |-> "resolveDHTNodesDefault", nodes |-> nodes,
                       dns |-> dns]
          /\ output' = [op |-> "resolveDHTNodesDefault"]
                           @@ resolveDHTNodesDefault(nodes, dns)
    /\ UNCHANGED <<adapterVars, proxyVars>>

(***************************************************************************)
(* torrentSpecFromURL                                                      *)
(***************************************************************************)
\* The locators of the tests.
URLEmpty == ""
URLInvalid == "http://192.0.2.%31/this/is/invalid"
URLNoScheme == "/this/has/no/scheme"
URLUnknown == "unknown://protocol/here"
URLBadMagnet == "magnet:?xt=urn:btih:this-is-not-valid-hex"
URLMagnet == "magnet:?xt=urn:btih:adecafcafeadecafcafeadecafcafeadecafcafe"
URLUnreachable == "http://localhost:99999/"
URLFail == "http://localhost/fail"
URLNotATorrent == "http://localhost/not-a-torrent"
URLTorrent == "http://localhost/a-torrent"
URLTorrentTLS == "https://localhost/a-torrent"

TorrentURLs == {URLEmpty, URLInvalid, URLNoScheme, URLUnknown, URLBadMagnet,
                URLMagnet, URLUnreachable, URLFail, URLNotATorrent,
                URLTorrent, URLTorrentTLS}

\* url.Parse(input): the scheme, or an error.
URLParse(u) ==
    IF u = URLInvalid THEN [scheme |-> "", err |-> "invalid URL escape"]
    ELSE IF u \in {URLEmpty, URLNoScheme} THEN [scheme |-> "", err |-> "nil"]
    ELSE IF u = URLUnknown THEN [scheme |-> "unknown", err |-> "nil"]
    ELSE IF u \in {URLBadMagnet, URLMagnet} THEN [scheme |-> "magnet", err |-> "nil"]
    ELSE IF u = URLTorrentTLS THEN [scheme |-> "https", err |-> "nil"]
    ELSE [scheme |-> "http", err |-> "nil"]

NilSpec == [nil |-> TRUE, hash |-> "", info |-> FALSE]

\* torrent.TorrentSpecFromMagnetURI(input)
TorrentSpecFromMagnetURI(u) ==
    IF u = URLMagnet
    THEN [spec |-> [nil |-> FALSE,
                    hash |-> "adecafcafeadecafcafeadecafcafeadecafcafe",
                    info |-> FALSE],
          err |-> "nil"]
    ELSE [spec |-> NilSpec, err |-> "encoding/hex: invalid byte"]

\* http.Get(input): a transport error, or the status and body of the answer.
HTTPGet(u) ==
    IF u = URLUnreachable
    THEN [err |-> "dial tcp: invalid port", status |-> 0, torrent |-> FALSE]
    ELSE IF u = URLFail THEN [err |-> "nil", status |-> 404, torrent |-> FALSE]
    ELSE IF u = URLNotATorrent THEN [err |-> "nil", status |-> 200, torrent |-> FALSE]
    ELSE [err |-> "nil", status |-> 200, torrent |-> TRUE]

\* A torrentSpecFromURL that fetches every locator that is not a magnet.
torrentSpecFromURLAnyScheme(u) ==
    IF u = ""
    THEN [spec |-> NilSpec, err |-> "URL not specified", gets |-> 0, names |-> ""]
    ELSE LET parsed == URLParse(u)
             resp == HTTPGet(u)
         IN IF parsed.scheme = "magnet"
            THEN [spec |-> TorrentSpecFromMagnetURI(u).spec,
                  err |-> IF TorrentSpecFromMagnetURI(u).err # "nil"
                          THEN "Malformed magnet url" ELSE "nil",
                  gets |-> 0, names |-> ""]
            ELSE IF resp.err # "nil"
            THEN [spec |-> NilSpec, err |-> "Error fetching", gets |-> 1,
                  names |-> ""]
            ELSE IF resp.status # 200
            THEN [spec |-> NilSpec, err |-> "Not Found", gets |-> 1, names |-> ""]
            ELSE IF ~resp.torrent
            THEN [spec |-> NilSpec, err |-> "Not a valid torrent file",
                  gets |-> 1, names |-> ""]
            ELSE [spec |-> [nil |-> FALSE, hash |-> "fixture", info |-> TRUE],
                  err |-> "nil", gets |-> 1, names |-> ""]

\* torrentSpecFromURL(input): the spec, the error, the number of GETs made
\* and the scheme the error names.
torrentSpecFromURL(u) ==
    IF u = ""
    THEN [spec |-> NilSpec, err |-> "URL not specified", gets |-> 0, names |-> ""]
    ELSE LET parsed == URLParse(u)
         IN IF parsed.err # "nil"
            THEN [spec |-> NilSpec, err |-> parsed.err, gets |-> 0, names |-> ""]
            ELSE IF parsed.scheme = ""
            THEN [spec |-> NilSpec, err |-> "Unable to parse URL", gets |-> 0,
                  names |-> ""]
            ELSE IF parsed.scheme = "magnet"
            THEN LET m == TorrentSpecFromMagnetURI(u)
                 IN IF m.err # "nil"
                    THEN [spec |-> m.spec, err |-> "Malformed magnet url",
                          gets |-> 0, names |-> ""]
                    ELSE [spec |-> m.spec, err |-> "nil", gets |-> 0,
                          names |-> ""]
            ELSE IF parsed.scheme # "http" /\ parsed.scheme # "https"
            THEN [spec |-> NilSpec, err |-> "Unknown URL scheme", gets |-> 0,
                  names |-> parsed.scheme]
            ELSE LET resp == HTTPGet(u)
                 IN IF resp.err # "nil"
                    THEN [spec |-> NilSpec, err |-> "Error fetching", gets |-> 1,
                          names |-> ""]
                    ELSE IF resp.status # 200
                    THEN [spec |-> NilSpec, err |-> "Not Found", gets |-> 1,
                          names |-> ""]
                    ELSE IF ~resp.torrent
                    THEN [spec |-> NilSpec, err |-> "Not a valid torrent file",
                          gets |-> 1, names |-> ""]
                    ELSE [spec |-> [nil |-> FALSE, hash |-> "fixture",
                                    info |-> TRUE],
                          err |-> "nil", gets |-> 1, names |-> ""]

\* A call of torrentSpecFromURL with one of the locators.
CallTorrentSpecFromURL ==
    /\ \E u \in TorrentURLs :
          /\ input' = [op |-> "torrentSpecFromURL", url |-> u]
          /\ output' = [op |-> "torrentSpecFromURL"] @@ torrentSpecFromURL(u)
    /\ UNCHANGED <<adapterVars, proxyVars>>

NextHelpers ==
    \/ CallResolveDHTNodes
    \/ CallResolveDHTNodesDefault
    \/ CallTorrentSpecFromURL

SpecHelpers == InitHelpers /\ [][NextHelpers]_vars

(***************************************************************************)
(* TorrentProxy: construction (proxy.go).                                  *)
(***************************************************************************)
\* Listen addresses: the default (empty) and the out-of-range port of the
\* tests.
ListenAddrs == {"", "localhost:99999"}

\* net.Listen and torrent.NewClient accept every address but the one whose
\* port is out of range.
AddrUsable(addr) == addr # "localhost:99999"

\* listener.Addr().String(): where the listener ended up.
BoundAddr(addr) == "127.0.0.1:49152"

\* The DHT node lists a proxy is configured with: none, a good one, a bad
\* one, a good one followed by a bad one.
ProxyNodeLists ==
    {<<>>, <<"192.0.2.1:1234">>, <<"192.0.2.1:99999">>,
     <<"192.0.2.1:1234", "192.0.2.1:99999">>}

Configs ==
    [TorrentURL : TorrentURLs \ {URLTorrentTLS}, DHTNodes : ProxyNodeLists,
     HTTPListenAddr : ListenAddrs, TorrentListenAddr : ListenAddrs]

\* The defaults NewTorrentProxy fills in.
WithDefaults(config) ==
    [config EXCEPT
        !.HTTPListenAddr = IF config.HTTPListenAddr = "" THEN "localhost:0"
                           ELSE config.HTTPListenAddr,
        !.TorrentListenAddr = IF config.TorrentListenAddr = "" THEN ":0"
                              ELSE config.TorrentListenAddr]

\* A startTorrentClient outcome: the error, whether p.client and p.torrent
\* were set, the engine started, and the steps taken.
ClientOutcome(err, client, torrent, nodht, nodes, info, steps) ==
    [err |-> err, client |-> client, torrent |-> torrent, nodht |-> nodht,
     nodes |-> nodes, info |-> info, steps |-> steps]

\* A startTorrentClient that never sets NoDHT.
startTorrentClientAlwaysDHT(config, addOK) ==
    LET resolved == resolveDHTNodes(config.DHTNodes)
        spec == torrentSpecFromURL(config.TorrentURL)
    IN IF resolved.err # "nil"
       THEN ClientOutcome("Error resolving DHT node", FALSE, FALSE, FALSE, <<>>,
                          FALSE, <<"resolveDHTNodes">>)
       ELSE IF spec.err # "nil"
       THEN ClientOutcome("Invalid torrent URL", FALSE, FALSE, FALSE, <<>>,
                          FALSE, <<"resolveDHTNodes", "torrentSpecFromURL">>)
       ELSE IF ~AddrUsable(config.TorrentListenAddr)
       THEN ClientOutcome("invalid port", FALSE, FALSE, FALSE, <<>>, FALSE,
                          <<"resolveDHTNodes", "torrentSpecFromURL", "NewClient">>)
       ELSE ClientOutcome(IF addOK THEN "nil" ELSE "AddTorrentSpec failed",
                          TRUE, TRUE, FALSE, resolved.nodes, spec.spec.info,
                          <<"resolveDHTNodes", "torrentSpecFromURL", "NewClient",
                            "AddTorrentSpec">>)

\* p.startTorrentClient(); addOK says whether AddTorrentSpec succeeds.
startTorrentClient(config, addOK) ==
    LET resolved == resolveDHTNodes(config.DHTNodes)
        nodht == Len(resolved.nodes) = 0
        spec == torrentSpecFromURL(config.TorrentURL)
    IN IF resolved.err # "nil"
       THEN ClientOutcome("Error resolving DHT node", FALSE, FALSE, FALSE, <<>>,
                          FALSE, <<"resolveDHTNodes">>)
       ELSE IF spec.err # "nil"
       THEN ClientOutcome("Invalid torrent URL", FALSE, FALSE, FALSE, <<>>,
                          FALSE, <<"resolveDHTNodes", "torrentSpecFromURL">>)
       ELSE IF ~AddrUsable(config.TorrentListenAddr)
       THEN ClientOutcome("invalid port", FALSE, FALSE, FALSE, <<>>, FALSE,
                          <<"resolveDHTNodes", "torrentSpecFromURL", "NewClient">>)
       ELSE ClientOutcome(IF addOK THEN "nil" ELSE "AddTorrentSpec failed",
                          TRUE, TRUE, nodht, resolved.nodes, spec.spec.info,
                          <<"resolveDHTNodes", "torrentSpecFromURL", "NewClient",
                            "AddTorrentSpec">>)

\* p.startHTTPServer(): the error, the address and whether the listener is
\* bound and served by its goroutine.
startHTTPServer(config) ==
    IF ~AddrUsable(config.HTTPListenAddr)
    THEN [err |-> "invalid port", addr |-> config.HTTPListenAddr,
          listening |-> FALSE, httperror |-> FALSE, steps |-> <<"Listen">>]
    ELSE [err |-> "nil", addr |-> BoundAddr(config.HTTPListenAddr),
          listening |-> TRUE, httperror |-> TRUE,
          steps |-> <<"Listen", "Serve">>]

\* A NewTorrentProxy that goes on to the HTTP server whatever became of the
\* torrent client.
NewProxyIgnoringClientError(config, addOK) ==
    LET cfg == WithDefaults(config)
        c == startTorrentClient(cfg, addOK)
        h == startHTTPServer(cfg)
    IN [config |-> [cfg EXCEPT !.HTTPListenAddr = h.addr],
        err |-> h.err, client |-> c.client, torrent |-> c.torrent,
        nodht |-> c.nodht, nodes |-> c.nodes, info |-> c.info,
        listening |-> h.listening, httperror |-> h.httperror,
        steps |-> c.steps \o h.steps]

\* NewTorrentProxy(config): the proxy, the error, and what is left running.
NewProxy(config, addOK) ==
    LET cfg == WithDefaults(config)
        c == startTorrentClient(cfg, addOK)
        h == startHTTPServer(cfg)
    IN IF c.err # "nil"
       THEN [config |-> cfg, err |-> c.err, client |-> c.client,
             torrent |-> c.torrent, nodht |-> c.nodht, nodes |-> c.nodes,
             info |-> c.info, listening |-> FALSE, httperror |-> FALSE,
             steps |-> c.steps]
       ELSE [config |-> [cfg EXCEPT !.HTTPListenAddr = h.addr],
             err |-> h.err, client |-> c.client, torrent |-> c.torrent,
             nodht |-> c.nodht, nodes |-> c.nodes, info |-> c.info,
             listening |-> h.listening, httperror |-> h.httperror,
             steps |-> c.steps \o h.steps]

(***************************************************************************)
(* The torrent the engine is given, and what the engine does on its own.   *)
(***************************************************************************)
\* Piece length of the torrents.
PieceLength == 2

\* Paths are sequences of characters; the files of a torrent are "a", "b".
FilePath(i) == IF i = 1 THEN <<"a">> ELSE <<"b">>

\* The torrents a proxy may be given: the lengths of their two files.
ProxyTorrents == {Layout(<<2, 0>>), Layout(<<1, 2>>), Layout(<<0, 1>>)}

NumPieces(fs) == (TotalLength(fs) + PieceLength - 1) \div PieceLength

\* torrent.Torrent.Files(): empty until the metadata is there.
Files == IF engine.info THEN engine.tfiles ELSE <<>>

\* torrent.File.State(): the states of the pieces that hold bytes of file f.
FileState(f) ==
    IF f.length = 0 THEN <<>>
    ELSE LET first == f.offset \div PieceLength
             last == (f.offset + f.length - 1) \div PieceLength
         IN [j \in 1..(last - first + 1) |-> engine.pieces[first + j]]

NewTorrentProxy ==
    /\ ~proxy.built
    /\ \E config \in Configs, addOK \in BOOLEAN, tor \in ProxyTorrents :
          LET r == NewProxy(config, addOK)
          IN /\ proxy' = [built |-> TRUE, config |-> r.config,
                          client |-> r.client, torrent |-> r.torrent,
                          httperror |-> r.httperror, err |-> r.err,
                          steps |-> r.steps, lastClose |-> "none"]
             /\ engine' = IF r.client
                          THEN [client |-> "running", closes |-> 0,
                                nodht |-> r.nodht, nodes |-> r.nodes,
                                added |-> addOK, info |-> r.info,
                                tfiles |-> tor,
                                pieces |-> [j \in 1..NumPieces(tor) |-> FALSE]]
                          ELSE NoEngine
             /\ listening' = r.listening
    /\ UNCHANGED <<handlers, adapterVars, helperVars, run, process>>

\* The metadata of a magnet torrent arrives from the swarm.
MetadataArrives ==
    /\ engine.client = "running"
    /\ ~engine.info
    /\ engine' = [engine EXCEPT !.info = TRUE]
    /\ UNCHANGED <<proxy, listening, handlers, adapterVars, helperVars, run, process>>

\* A piece is downloaded (or hashed from disk) and verified.
PieceCompletes ==
    /\ engine.client = "running"
    /\ engine.info
    /\ \E j \in 1..Len(engine.pieces) :
          /\ ~engine.pieces[j]
          /\ engine' = [engine EXCEPT !.pieces[j] = TRUE]
    /\ UNCHANGED <<proxy, listening, handlers, adapterVars, helperVars, run, process>>

\* A Close that closes the client without looking at p.client first.
CloseUnguarded(p, e) ==
    [proxy |-> [p EXCEPT !.client = FALSE, !.torrent = FALSE,
                         !.lastClose = "closed"],
     engine |-> [e EXCEPT !.client = "closed", !.closes = e.closes + 1]]

\* The body of Close on the proxy p whose engine is e: what becomes of both.
\* lastClose records whether the call closed the client or found none.
CloseOp(p, e) ==
    IF p.client
    THEN [proxy |-> [p EXCEPT !.client = FALSE, !.torrent = FALSE,
                              !.lastClose = "closed"],
          engine |-> [e EXCEPT !.client = "closed", !.closes = e.closes + 1]]
    ELSE [proxy |-> [p EXCEPT !.lastClose = "noop"], engine |-> e]

\* p.Close(), on a TorrentProxy in any state.
Close ==
    /\ proxy' = CloseOp(proxy, engine).proxy
    /\ engine' = CloseOp(proxy, engine).engine
    /\ UNCHANGED <<listening, handlers, adapterVars, helperVars, run, process>>

(***************************************************************************)
(* TorrentProxy: Status and ServeHTTP (proxy.go).                          *)
(***************************************************************************)
\* The request paths (r.URL.Path), as sequences of characters: the status
\* path, the two files, a file that is not in the torrent, and the empty
\* path of a request line with an absolute URI and no path.
RequestPaths == {<<"/">>, <<"/", "a">>, <<"/", "b">>, <<"/", "c">>, <<>>}

RECURSIVE CountComplete(_, _)
CountComplete(states, n) ==
    IF n = 0 THEN 0
    ELSE (IF states[n] THEN 1 ELSE 0) + CountComplete(states, n - 1)

\* complete / total in float32: 0/0 is NaN.
Divide(complete, total) ==
    IF total = 0 THEN [nan |-> TRUE, num |-> 0, den |-> 0]
    ELSE [nan |-> FALSE, num |-> complete, den |-> total]

\* The loop of Status over one file's piece states.
Complete(states) == Divide(CountComplete(states, Len(states)), Len(states))

\* The Files of a TorrentStatus, from the torrent's file list.
StatusFilesOf(fs) ==
    [i \in 1..Len(fs) |->
        [path |-> FilePath(i), length |-> fs[i].length,
         complete |-> Complete(FileState(fs[i]))]]

\* json.NewEncoder(w).Encode refuses a NaN and writes nothing.
Encodable(snapshot) == \A i \in 1..Len(snapshot) : ~snapshot[i].complete.nan

\* The loop of ServeHTTP over the file list, from file i on: the index of
\* the first file whose path is r.URL.Path[1:], 0 when there is none.
RECURSIVE FindFile(_, _, _)
FindFile(fs, path, i) ==
    IF i > Len(fs) THEN 0
    ELSE IF FilePath(i) = Tail(path) THEN i
    ELSE FindFile(fs, path, i + 1)

\* A request arrives on the listener and ServeHTTP is called with it.
Accept(h) ==
    /\ listening
    /\ handlers[h].pc \in {"idle", "done"}
    /\ \E path \in RequestPaths :
          handlers' = [handlers EXCEPT ![h] =
              [IdleHandler EXCEPT !.pc = "start", !.call = "ServeHTTP",
                                  !.path = path]]
    /\ UNCHANGED <<proxy, engine, listening, adapterVars, helperVars, run, process>>

\* The program that owns the proxy calls p.Status() itself.
CallStatus(h) ==
    /\ proxy.built
    /\ proxy.err = "nil"
    /\ handlers[h].pc \in {"idle", "done"}
    /\ handlers' = [handlers EXCEPT ![h] =
           [IdleHandler EXCEPT !.pc = "start", !.call = "Status"]]
    /\ UNCHANGED <<proxy, engine, listening, adapterVars, helperVars, run, process>>

IsStatus(r) == r.call = "Status" \/ r.path = <<"/">>

\* Status(), first half: p.torrent.Info(), Name() and InfoHash().
StatusInfo(h) ==
    /\ handlers[h].pc = "start"
    /\ IsStatus(handlers[h])
    /\ handlers' = [handlers EXCEPT ![h] =
           IF ~proxy.torrent
           THEN [@ EXCEPT !.pc = "done", !.fault = "nil torrent"]
           ELSE [@ EXCEPT !.pc = "files",
                          !.status = IF engine.info THEN "ready" ELSE "pending"]]
    /\ UNCHANGED <<proxy, engine, listening, adapterVars, helperVars, run, process>>

\* Status(), second half: the loop over p.torrent.Files(); ServeHTTP then
\* encodes the status and is done.
StatusFiles(h) ==
    /\ handlers[h].pc = "files"
    /\ handlers' = [handlers EXCEPT ![h] =
           IF ~proxy.torrent
           THEN [@ EXCEPT !.pc = "done", !.fault = "nil torrent"]
           ELSE LET snap == StatusFilesOf(Files)
                IN [@ EXCEPT !.pc = "done", !.snapshot = snap,
                             !.listed = Files,
                             !.code = IF handlers[h].call = "ServeHTTP"
                                      THEN 200 ELSE 0,
                             !.body = IF handlers[h].call = "ServeHTTP"
                                         /\ Encodable(snap)
                                      THEN "json" ELSE "none"]]
    /\ UNCHANGED <<proxy, engine, listening, adapterVars, helperVars, run, process>>

\* ServeHTTP for any other path: the scan of p.torrent.Files() and the 404.
Scan(h) ==
    /\ handlers[h].pc = "start"
    /\ ~IsStatus(handlers[h])
    /\ handlers' = [handlers EXCEPT ![h] =
           IF ~proxy.torrent
           THEN [@ EXCEPT !.pc = "done", !.fault = "nil torrent"]
           ELSE IF Len(Files) > 0 /\ Len(handlers[h].path) = 0
           THEN \* r.URL.Path[1:] of an empty path
                [@ EXCEPT !.pc = "done", !.listed = Files,
                          !.fault = "slice bounds out of range"]
           ELSE IF Len(Files) = 0 \/ FindFile(Files, handlers[h].path, 1) = 0
           THEN [@ EXCEPT !.pc = "done", !.listed = Files, !.code = 404,
                          !.body = "File Not Found"]
           ELSE [@ EXCEPT !.pc = "serve", !.listed = Files,
                          !.file = FindFile(Files, handlers[h].path, 1)]]
    /\ UNCHANGED <<proxy, engine, listening, adapterVars, helperVars, run, process>>

\* How often call c is among calls.
Count(calls, c) == Len(SelectSeq(calls, LAMBDA x : x = c))

\* A handler that asks for the download after it has served the content.
ServeCallsDownloadLast == <<"NewReader", "ServeContent", "Download">>

\* The calls ServeHTTP makes for a file that was found, in their order.
ServeCalls == <<"Download", "NewReader", "ServeContent">>

\* ServeHTTP for a file that was found: thefile.Download(), then an adapter
\* over p.torrent.NewReader() is handed to http.ServeContent.  NewReader
\* of a nil torrent panics, and the calls end there.
Serve(h) ==
    /\ handlers[h].pc = "serve"
    /\ handlers' = [handlers EXCEPT ![h] =
           IF ~proxy.torrent
           THEN [@ EXCEPT !.pc = "done", !.hints = @ + 1,
                          !.fault = "nil torrent",
                          !.calls = SelectSeq(ServeCalls,
                                        LAMBDA c : c # "ServeContent")]
           ELSE [@ EXCEPT !.pc = "done", !.hints = @ + 1, !.reader = TRUE,
                          !.code = 200, !.body = "content",
                          !.calls = ServeCalls]]
    /\ UNCHANGED <<proxy, engine, listening, adapterVars, helperVars, run, process>>

NextProxy ==
    \/ NewTorrentProxy
    \/ MetadataArrives
    \/ PieceCompletes
    \/ Close
    \/ \E h \in Handlers : Accept(h)
    \/ \E h \in Handlers : CallStatus(h)
    \/ \E h \in Handlers : StatusInfo(h)
    \/ \E h \in Handlers : StatusFiles(h)
    \/ \E h \in Handlers : Scan(h)
    \/ \E h \in Handlers : Serve(h)

InitProxy ==
    /\ files = Layout(<<0, 0>>)
    /\ trsFile = 1
    /\ readerPos = 0
    /\ ret = NoRet
    /\ trail = NoTrail
    /\ readerPos2 = 0
    /\ ret2 = NoRet
    /\ HelpersIdle
    /\ ProxyIdle
    /\ StreamsIdle

SpecProxy == InitProxy /\ [][NextProxy]_vars

(***************************************************************************)
(* TorrentProxy: Run and the goroutine of startHTTPServer (proxy.go).      *)
(***************************************************************************)
\* The errors http.Serve returns when its listener fails; it never returns
\* nil.
ServeErrors == {"accept tcp: use of closed network connection",
                "accept tcp: too many open files"}

\* http.Serve(listener, p) returns: the goroutine goes on to send the error
\* on p.httperror, an unbuffered channel.
ServeReturns ==
    /\ listening
    /\ run.server = "serving"
    /\ \E err \in ServeErrors :
          run' = [run EXCEPT !.server = "sending", !.serveErr = err]
    /\ listening' = FALSE
    /\ UNCHANGED <<proxy, engine, handlers, adapterVars, helperVars, process>>

\* The program calls p.Run(), which waits to receive from p.httperror (for
\* ever when startHTTPServer never made the channel).
Run ==
    /\ proxy.built
    /\ run.caller = "idle"
    /\ run' = [run EXCEPT !.caller = "blocked"]
    /\ UNCHANGED <<proxy, engine, listening, handlers, adapterVars, helperVars, process>>

\* A receive that does not wait for the goroutine to send.
ReceiveReadyEarly == proxy.httperror /\ run.caller = "blocked"

\* The send of the goroutine and the receive of Run can meet.
ReceiveReady ==
    /\ proxy.httperror
    /\ run.server = "sending"
    /\ run.caller = "blocked"

\* The goroutine's send and Run's receive meet: the goroutine ends and Run
\* returns the error.
Receive ==
    /\ ReceiveReady
    /\ run' = [run EXCEPT !.server = "exited", !.caller = "returned",
                          !.err = run.serveErr]
    /\ UNCHANGED <<proxy, engine, listening, handlers, adapterVars, helperVars, process>>

NextRun ==
    \/ NewTorrentProxy
    \/ Close
    \/ ServeReturns
    \/ Run
    \/ Receive

\* A send and a receive that can meet do meet.
SpecRun == InitProxy /\ [][NextRun]_vars /\ WF_vars(Receive)

(***************************************************************************)
(* Two proxies in one process.                                             *)
(***************************************************************************)
\* The startHTTPServer of src/proxy/proxy.go: http.Handle("/", p) registers
\* the proxy with DefaultServeMux, which panics when "/" is taken, and
\* http.Serve(listener, nil) serves with DefaultServeMux (handler "mux").
ServeWithDefaultMux(mux, i) ==
    IF mux # "none"
    THEN [mux |-> mux, handler |-> "none", fault |-> TRUE]
    ELSE [mux |-> i, handler |-> "mux", fault |-> FALSE]

\* How startHTTPServer of proxy i has its listener served, DefaultServeMux
\* holding mux: http.Serve(listener, p), the proxy itself is the handler.
ServeWith(mux, i) == [mux |-> mux, handler |-> i, fault |-> FALSE]

\* The configurations of the proxies of one process.
InstanceConfigs ==
    {c \in Configs : c.TorrentURL \in {URLMagnet, URLTorrent, URLFail}
                     /\ c.DHTNodes \in {<<>>, <<"192.0.2.1:1234">>}}

\* NewTorrentProxy(config) for proxy i of the process.
NewTorrentProxyIn(i) ==
    /\ ~process.inst[i].built
    /\ \E config \in InstanceConfigs :
          LET r == NewProxy(config, TRUE)
              served == ServeWith(process.mux, i)
          IN process' = [process EXCEPT
                 !.mux = IF r.httperror \/ served.fault THEN served.mux ELSE @,
                 !.inst[i] = [built |-> TRUE, config |-> r.config,
                              err |-> r.err,
                              listening |-> r.listening /\ ~served.fault,
                              handler |-> IF r.listening /\ ~served.fault
                                          THEN served.handler ELSE "none",
                              fault |-> r.httperror /\ served.fault]]
    /\ UNCHANGED <<proxy, engine, listening, handlers, run, adapterVars, helperVars>>

\* The proxy that answers a request accepted on the listener of proxy i.
HandlerOf(i) ==
    IF process.inst[i].handler = "mux" THEN process.mux
    ELSE process.inst[i].handler

\* A request arrives on the listener of proxy i and is handled.
RequestOn(i) ==
    /\ process.inst[i].listening
    /\ process' = [process EXCEPT !.req = [listener |-> i,
                                           servedBy |-> HandlerOf(i)]]
    /\ UNCHANGED <<proxy, engine, listening, handlers, run, adapterVars, helperVars>>

NextTwo ==
    \/ \E i \in Instances : NewTorrentProxyIn(i)
    \/ \E i \in Instances : RequestOn(i)

SpecTwo == InitProxy /\ [][NextTwo]_vars

(***************************************************************************)
(* The file requests served at the same time: ServeHTTP makes one adapter  *)
(* per request, and http.ServeContent calls Seek and Read on it.  A call   *)
(* works on the adapter's own reader only, so a call is one step.          *)
(***************************************************************************)
\* A NewReader that hands every request the reader of the first one.
NewReaderShared(q) == "q1"

\* p.torrent.NewReader(): a reader of its own for the request.
NewReader(q) == q

\* The whence values http.ServeContent seeks with, and the offsets: the end
\* to learn the size, the start of the content or of a range to send it.
ContentWhences == {SeekStart, SeekEnd}
ContentOffsets == 0..MaxFileLen

\* The position of the reader of the adapter of request q.
Cursor(q) == streams.pos[streams.adapter[q].Reader]

\* &torrentReadSeeker{Reader: p.torrent.NewReader(), File: &thefile} for a
\* request whose path matched file f; a new reader is at position 0.
Open(q) ==
    /\ ~streams.adapter[q].open
    /\ \E f \in 1..Len(files) :
          streams' = [adapter |-> [streams.adapter EXCEPT ![q] =
                                      [open |-> TRUE, File |-> f,
                                       Reader |-> NewReader(q),
                                       ret |-> NoResult]],
                      pos |-> [streams.pos EXCEPT ![NewReader(q)] = 0]]
    /\ UNCHANGED <<files, trsFile, readerPos, ret, trail, readerPos2, ret2,
                   helperVars, proxyVars>>

\* Seek on the adapter of request q.
SeekOn(q) ==
    /\ streams.adapter[q].open
    /\ \E offset \in ContentOffsets, whence \in ContentWhences :
          LET a == streams.adapter[q]
              r == SeekOp(files, files[a.File], Cursor(q), offset, whence)
          IN streams' = [adapter |-> [streams.adapter EXCEPT ![q].ret =
                                         [op |-> "Seek", n |-> r.n,
                                          err |-> r.err, data |-> <<>>]],
                         pos |-> [streams.pos EXCEPT ![a.Reader] = r.pos]]
    /\ UNCHANGED <<files, trsFile, readerPos, ret, trail, readerPos2, ret2,
                   helperVars, proxyVars>>

\* Read on the adapter of request q.
ReadOn(q) ==
    /\ streams.adapter[q].open
    /\ \E buflen \in 0..MaxBuf :
          LET a == streams.adapter[q]
          IN \E got \in Deliverable(files, files[a.File], Cursor(q), buflen) :
                LET r == ReadOp(files, files[a.File], Cursor(q), buflen, got)
                IN streams' = [adapter |-> [streams.adapter EXCEPT ![q].ret =
                                               [op |-> "Read", n |-> r.n,
                                                err |-> r.err,
                                                data |-> r.data]],
                               pos |-> [streams.pos EXCEPT ![a.Reader] = r.pos]]
    /\ UNCHANGED <<files, trsFile, readerPos, ret, trail, readerPos2, ret2,
                   helperVars, proxyVars>>

\* http.ServeContent returns and ServeHTTP with it: the adapter is dropped.
Finish(q) ==
    /\ streams.adapter[q].open
    /\ streams' = [streams EXCEPT !.adapter[q] = NoStream]
    /\ UNCHANGED <<files, trsFile, readerPos, ret, trail, readerPos2, ret2,
                   helperVars, proxyVars>>

NextStreams ==
    \/ \E q \in Requests : Open(q)
    \/ \E q \in Requests : SeekOn(q)
    \/ \E q \in Requests : ReadOn(q)
    \/ \E q \in Requests : Finish(q)

InitStreams ==
    /\ files \in Layouts
    /\ trsFile = 1
    /\ readerPos = 0
    /\ ret = NoRet
    /\ trail = NoTrail
    /\ readerPos2 = 0
    /\ ret2 = NoRet
    /\ HelpersIdle
    /\ ProxyIdle
    /\ StreamsIdle

SpecStreams == InitStreams /\ [][NextStreams]_vars

(***************************************************************************)
(* Claims about the adapter.                                               *)
(***************************************************************************)
TheFile == files[trsFile]
EndOfFile == TheFile.offset + TheFile.length
Min(a, b) == IF a < b THEN a ELSE b
Called == ret.op \in {"Seek", "Read"}

\* C1: after any sequence of Seek and Read calls, with any offset and any
\* whence, the reader's position is within [fileOffset, fileOffset +
\* fileLength], and every position Seek returns is within [0, fileLength]
\* and comes without an error.
C1_PositionStaysInFile ==
    Called =>
        /\ readerPos >= TheFile.offset
        /\ readerPos <= EndOfFile
        /\ (ret.op = "Seek" =>
               ret.n >= 0 /\ ret.n <= TheFile.length /\ ret.err = "nil")

\* C2: every Read completes without faulting and returns at most
\* min(len(buffer), fileOffset + fileLength - currentPosition) bytes.
C2_ReadStaysInFile ==
    ret.op = "Read" =>
        /\ ~ret.fault
        /\ ret.n >= 0
        /\ ret.n <= Min(ret.buflen, EndOfFile - ret.start)

\* C3: Seek(k, end) with 0 <= k <= fileLength returns
\* fileLength - k, the Read into a buffer of at least k bytes (k > 0) that
\* follows returns exactly k bytes with no error, and the Read after that
\* returns 0 bytes with EOF.
C3_SeekEndReadRead_Stated ==
    /\ trail.stage = 1 => ret.n = TheFile.length - trail.k /\ ret.err = "nil"
    /\ trail.stage = 2 => ret.n = trail.k /\ ret.err = "nil"
    /\ trail.stage = 3 => ret.n = 0 /\ ret.err = "EOF"

\* C4: read without any prior Seek, an adapter over a fresh reader returns
\* the same byte counts, the same bytes and ends at the same position as an
\* adapter on which Seek(0, start) was called first.
C4_ImplicitSeekToStart ==
    ret.op = "Read" =>
        /\ ret2.op = "Read"
        /\ ret.n = ret2.n
        /\ ret.err = ret2.err
        /\ ret.data = ret2.data
        /\ ret.hints = ret2.hints
        /\ readerPos = readerPos2

C4_Witness ==
    /\ ret.op = "Read"
    /\ TheFile.offset > 0
    /\ ret.start > TheFile.offset
    /\ ret.n > 0
    /\ ret.data = ret2.data

Max(a, b) == IF a > b THEN a ELSE b

\* C12: for every offset >= 0, Seek(offset, start) leaves the reader at
\* min(fileOffset + offset, fileOffset + fileLength) and returns
\* min(offset, fileLength) with no error.
C12_SeekStartClamps ==
    (ret.op = "Seek" /\ ret.whence = SeekStart /\ ret.offset >= 0) =>
        /\ readerPos = Min(TheFile.offset + ret.offset, EndOfFile)
        /\ ret.n = Min(ret.offset, TheFile.length)
        /\ ret.err = "nil"

\* C13: for every offset >= 0, Seek(offset, end) leaves the reader at
\* max(fileOffset + fileLength - offset, fileOffset), by a start-relative
\* seek on the reader, and returns max(fileLength - offset, 0) with no
\* error.
C13_SeekEndClamps ==
    (ret.op = "Seek" /\ ret.whence = SeekEnd /\ ret.offset >= 0) =>
        /\ readerPos = Max(EndOfFile - ret.offset, TheFile.offset)
        /\ ret.rwhence = SeekStart
        /\ ret.n = Max(TheFile.length - ret.offset, 0)
        /\ ret.err = "nil"

\* A Seek from the end by more than the file holds, on the second file.
C13_Witness ==
    /\ ret.op = "Seek"
    /\ ret.whence = SeekEnd
    /\ TheFile.offset > 0
    /\ TheFile.length > 0
    /\ ret.offset > TheFile.length
    /\ ret.before # TheFile.offset
    /\ readerPos = TheFile.offset
    /\ ret.n = 0

\* The file-relative position of the cursor when the reader is at pos: a
\* reader that is before the file stands for the start of the file.
FileRelative(pos) == IF pos < TheFile.offset THEN 0 ELSE pos - TheFile.offset

\* C14: Seek(d, current) returns the file-relative position the cursor had
\* before the call plus d, also as the first call on a fresh adapter over a
\* file with a nonzero offset.
C14_SeekCurrentIsFileRelative ==
    (ret.op = "Seek" /\ ret.whence = SeekCurrent) =>
        /\ ret.n = FileRelative(ret.before) + ret.offset
        /\ ret.err = "nil"

\* The size Read asks the reader for: the caller's buffer, clamped to what
\* is left of the file after the position the read starts from.
Clamped == Min(ret.buflen, EndOfFile - ret.start)

\* C21: the count Read reports is the number of bytes the reader retrieved:
\* when the reader delivers fewer bytes than the clamped size, Read reports
\* that smaller count and the failure, and the cursor has advanced by
\* exactly the reported count.
C21_ReportsWhatWasRead ==
    (ret.op = "Read" /\ ~ret.fault /\ ret.err # "EOF") =>
        /\ ret.n = ret.got
        /\ readerPos = ret.start + ret.n
        /\ ret.got < Clamped => ret.err # "nil"

\* C22: a Read that fails with EOF found no bytes left in the file (the
\* cursor at fileOffset + fileLength), reports 0 bytes, leaves the cursor
\* where it was and issues no hint and no read of the reader; no Read
\* reports EOF while bytes of the file remain, whatever the caller's buffer.
C22_EOFOnlyAtEnd ==
    (ret.op = "Read" /\ ret.err = "EOF") =>
        /\ ret.start = EndOfFile
        /\ readerPos = EndOfFile
        /\ FileRelative(ret.before) = FileRelative(readerPos)
        /\ ret.n = 0
        /\ ret.hints = <<>>
        /\ ret.got = 0

\* C23: only Read issues prioritization hints: a Read that returns data
\* issues exactly one, for the file-relative range that starts at the
\* cursor and is as long as the clamped size, a range within
\* [0, fileLength]; a Seek issues none.
C23_HintsOnlyFromRead ==
    /\ ret.op = "Seek" => ret.hints = <<>>
    /\ (ret.op = "Read" /\ ret.n > 0) =>
          /\ Len(ret.hints) = 1
          /\ ret.hints[1].off = ret.start - TheFile.offset
          /\ ret.hints[1].len = Clamped
          /\ ret.hints[1].off >= 0
          /\ ret.hints[1].len > 0
          /\ ret.hints[1].off + ret.hints[1].len <= TheFile.length

\* C24: with the cursor at file-relative p < fileLength, a Read into n
\* bytes returns the bytes of the torrent at [fileOffset + p, fileOffset + p
\* + min(n, fileLength - p)) and leaves the cursor at p + min(n,
\* fileLength - p).
C24_ReadsTheFilesBytes ==
    (/\ ret.op = "Read"
     /\ ret.before <= EndOfFile
     /\ FileRelative(ret.before) < TheFile.length) =>
        LET p == FileRelative(ret.before)
            m == Min(ret.buflen, TheFile.length - p)
        IN /\ ~ret.fault
           /\ ret.n = m
           /\ ret.data = [j \in 1..m |-> Byte(TheFile.offset + p + j - 1)]
           /\ readerPos = TheFile.offset + p + m

\* The file of the adapter of request q.
TheFileOf(q) == files[streams.adapter[q].File]

\* What request q has of its adapter: the adapter with the bytes its last
\* Read returned, and its cursor, which with the file decides the bytes of
\* its next Read.
View(q) == <<streams.adapter[q], Cursor(q), TheFileOf(q)>>

\* C25: every file request that matches gets its own adapter over its own
\* newly created reader: a step of one request (making its adapter, a Seek
\* or a Read on it, dropping it) leaves the adapter of every other request
\* in progress, its cursor and the bytes it returns unchanged.
C25_AdaptersAreIndependent ==
    [][\A q \in Requests, o \in Requests :
          (/\ q # o
           /\ streams'.adapter[q] # streams.adapter[q]
           /\ streams.adapter[o].open) => View(o)' = View(o)]_vars

\* Two requests for the same file whose adapters stand at different
\* positions of it: the first has read the first byte of the file, and
\* the second the byte the first will read next.
C25_Witness ==
    /\ streams.adapter["q1"].open /\ streams.adapter["q2"].open
    /\ streams.adapter["q1"].File = streams.adapter["q2"].File
    /\ streams.adapter["q1"].ret.op = "Read" /\ streams.adapter["q1"].ret.n > 0
    /\ streams.adapter["q2"].ret.op = "Read" /\ streams.adapter["q2"].ret.n > 0
    /\ Cursor("q1") # Cursor("q2")
    /\ streams.adapter["q1"].ret.data[1] = Byte(TheFileOf("q1").offset)
    /\ streams.adapter["q2"].ret.data[1] = Byte(Cursor("q1"))

(***************************************************************************)
(* Claims about the resolvers.                                             *)
(***************************************************************************)
ResolverCalled == input.op \in {"resolveDHTNodes", "resolveDHTNodesDefault"}

HasUnresolvable(nodes) == \E i \in 1..Len(nodes) : nodes[i] \in BadHostPorts

\* C6: for every non-empty seed list with at least one unresolvable entry, at
\* any index, resolveDHTNodes returns an error and an empty address list.
C6_NoPartialList ==
    (ResolverCalled /\ HasUnresolvable(input.nodes)) =>
        /\ output.err # "nil"
        /\ output.nodes = <<>>

C20_LocatorOutcomes ==
    input.op = "torrentSpecFromURL" =>
        LET u == input.url
            parsed == URLParse(u)
            failed == output.err # "nil"
        IN /\ failed <=> output.spec.nil
           /\ u = "" => (output.err = "URL not specified" /\ output.gets = 0)
           /\ (u # "" /\ parsed.err # "nil") => (failed /\ output.gets = 0)
           /\ (u # "" /\ parsed.err = "nil" /\ parsed.scheme = "") =>
                 (output.err = "Unable to parse URL" /\ output.gets = 0)
           /\ parsed.scheme = "magnet" =>
                 /\ output.gets = 0
                 /\ failed <=> (u = URLBadMagnet)
                 /\ failed => output.err = "Malformed magnet url"
           /\ parsed.scheme \notin {"", "magnet", "http", "https"} =>
                 /\ output.err = "Unknown URL scheme"
                 /\ output.names = parsed.scheme
                 /\ output.gets = 0
           /\ (parsed.err = "nil" /\ parsed.scheme \in {"http", "https"}) =>
                 /\ output.gets = 1
                 /\ failed <=> (u \in {URLUnreachable, URLFail, URLNotATorrent})
           /\ output.gets = 1 =>
                 (parsed.err = "nil" /\ parsed.scheme \in {"http", "https"})

\* The locator with an unsupported scheme was refused without a GET.
C20_Witness ==
    /\ input.op = "torrentSpecFromURL"
    /\ input.url = URLUnknown
    /\ output.err = "Unknown URL scheme"
    /\ output.names = "unknown"
    /\ output.gets = 0
    /\ output.spec.nil

(***************************************************************************)
(* Claims about the proxy.                                                 *)
(***************************************************************************)
\* C5: in every status snapshot the completion fraction of every file is a
\* number in [0.0, 1.0], piecesComplete / piecesTotal, and never an
\* undefined value, also for a file with no pieces.
C5_CompleteIsAFraction ==
    \A h \in Handlers :
        \A i \in 1..Len(handlers[h].snapshot) :
            LET c == handlers[h].snapshot[i].complete
            IN ~c.nan /\ c.num >= 0 /\ c.num <= c.den

\* C7: when NewTorrentProxy returns the error of an unusable HTTP or engine
\* listen address, no engine client is running and no listener exists.
C7_NothingRunsAfterBadAddress ==
    (proxy.built /\ proxy.err = "invalid port") =>
        /\ engine.client # "running"
        /\ ~listening

\* The error of the first startup step before the listener that fails.
StartupFailure ==
    IF resolveDHTNodes(proxy.config.DHTNodes).err # "nil"
    THEN "Error resolving DHT node"
    ELSE IF torrentSpecFromURL(proxy.config.TorrentURL).err # "nil"
    THEN "Invalid torrent URL"
    ELSE IF ~AddrUsable(proxy.config.TorrentListenAddr) THEN "invalid port"
    ELSE IF ~engine.added THEN "AddTorrentSpec failed"
    ELSE "nil"

EngineSteps == <<"resolveDHTNodes", "torrentSpecFromURL", "NewClient", "AddTorrentSpec">>

\* C8: seed resolution, locator resolution, engine construction and torrent
\* add run before the listener is bound; if one of them fails,
\* NewTorrentProxy returns that failure, the listener is never bound and no
\* request is ever served.
C8_StartupBeforeListen ==
    proxy.built =>
        /\ (listening \/ Len(proxy.steps) > Len(EngineSteps)) =>
              /\ SubSeq(proxy.steps, 1, Len(EngineSteps)) = EngineSteps
              /\ proxy.steps[Len(EngineSteps) + 1] = "Listen"
              /\ StartupFailure = "nil"
        /\ StartupFailure # "nil" =>
              /\ proxy.err = StartupFailure
              /\ ~listening
              /\ ~proxy.httperror
              /\ \A h \in Handlers : handlers[h].call # "ServeHTTP"

C8_Witness ==
    /\ proxy.built
    /\ proxy.config.TorrentURL = URLFail
    /\ proxy.config.DHTNodes # <<>>
    /\ proxy.err = "Invalid torrent URL"
    /\ proxy.steps = <<"resolveDHTNodes", "torrentSpecFromURL">>
    /\ ~listening

\* No file of the list fs has the path r.URL.Path without its first byte.
NoMatch(path, fs) ==
    \/ Len(path) = 0
    \/ \A i \in 1..Len(fs) : FilePath(i) # Tail(path)

\* C9: a request whose path is not "/" and matches no file of the current
\* file list (the empty path too) is answered 404 "File Not Found", without
\* a fault, a download hint or a reader.  Stated for the handlers that found
\* the torrent handle in place.
C9_UnknownPathIs404 ==
    \A h \in Handlers :
        LET r == handlers[h]
        IN (/\ r.pc = "done"
            /\ r.call = "ServeHTTP"
            /\ r.path # <<"/">>
            /\ r.fault # "nil torrent"
            /\ NoMatch(r.path, r.listed)) =>
               /\ r.code = 404
               /\ r.body = "File Not Found"
               /\ r.fault = "none"
               /\ r.hints = 0
               /\ ~r.reader

\* C10: a ServeHTTP or Status call that overlaps with or follows Close never
\* dereferences the released torrent handle.
C10_CloseIsSafe ==
    \A h \in Handlers : handlers[h].fault # "nil torrent"

\* A step of Close that is not a stuttering step.
CloseStep == proxy' # proxy /\ proxy'.built = proxy.built

\* C11: Close never faults, whatever state the proxy is in; the first
\* Close of a proxy with an engine client closes that client exactly once
\* and releases client and torrent together; every later Close changes
\* nothing.
C11_CloseIdempotent ==
    /\ [](engine.closes <= 1)
    /\ [](proxy.lastClose # "none" => (~proxy.client /\ ~proxy.torrent))
    /\ [](proxy.lastClose = "closed" => engine.client = "closed")
    /\ [][(CloseStep /\ ~proxy.client) =>
             (/\ engine' = engine
              /\ proxy' = [proxy EXCEPT !.lastClose = "noop"])]_vars
    /\ [][(CloseStep /\ proxy.client) =>
             (/\ engine.closes = 0
              /\ engine'.closes = 1
              /\ engine'.client = "closed"
              /\ ~proxy'.client /\ ~proxy'.torrent)]_vars

\* A second Close on a proxy whose first Close closed the running client.
C11_Witness ==
    /\ proxy.built
    /\ proxy.err = "nil"
    /\ proxy.lastClose = "noop"
    /\ engine.client = "closed"
    /\ engine.closes = 1

\* The locators that name a torrent: a well-formed magnet, and a URL that
\* answers 200 with a torrent file.
ValidLocators == {URLMagnet, URLTorrent, URLTorrentTLS}

\* The addresses of a seed list whose entries all resolve.
ResolvedSeeds(nodes) == [i \in 1..Len(nodes) |-> [udp |-> nodes[i]]]

AllResolvable(nodes) == \A i \in 1..Len(nodes) : nodes[i] \in GoodHostPorts

ReadsInfo(h) == handlers[h].pc = "start" /\ handlers'[h].pc = "files"

\* Handler h reads the file list and the piece states in this step, and
\* finds the torrent handle.
ReadsFiles(h) ==
    /\ handlers[h].pc = "files"
    /\ handlers'[h].pc = "done"
    /\ handlers'[h].fault = "none"

\* C17: every Status call and every GET / response carries what the engine
\* holds when the call reads it, nothing being kept from an earlier call:
\* status is "pending" exactly when the metadata is unavailable and "ready"
\* otherwise; the snapshot has one record per file of the current file
\* list, in order, with its path and length, and counts the pieces that are
\* complete by then; and the answer to GET / carries that snapshot.
C17_StatusIsLive ==
    /\ [][\A h \in Handlers : ReadsInfo(h) =>
             handlers'[h].status = IF engine.info THEN "ready" ELSE "pending"]_vars
    /\ [][\A h \in Handlers : ReadsFiles(h) =>
             LET snap == handlers'[h].snapshot
             IN /\ Len(snap) = Len(Files)
                /\ \A i \in 1..Len(snap) :
                      /\ snap[i].path = FilePath(i)
                      /\ snap[i].length = Files[i].length
                      /\ snap[i].complete.num =
                             Cardinality({j \in 1..Len(engine.pieces) :
                                 /\ engine.pieces[j]
                                 /\ Files[i].length > 0
                                 /\ (j - 1) * PieceLength < Files[i].offset + Files[i].length
                                 /\ j * PieceLength > Files[i].offset})]_vars
    /\ [](\A h \in Handlers :
             (/\ handlers[h].pc = "done"
              /\ handlers[h].call = "ServeHTTP"
              /\ handlers[h].path = <<"/">>
              /\ handlers[h].fault = "none") =>
                /\ handlers[h].code = 200
                /\ handlers[h].body = "json")

RECURSIVE Position(_, _, _)
Position(calls, c, i) ==
    IF i > Len(calls) THEN 0
    ELSE IF calls[i] = c THEN i
    ELSE Position(calls, c, i + 1)

\* A call of ServeHTTP that found the file of its path.
Matched(r) == r.call = "ServeHTTP" /\ r.file # 0

\* C26: for a request whose path matches a file the handler asks for the
\* download of that file exactly once, and before the adapter is handed to
\* http.ServeContent; it never asks for a download for a "/" request or for
\* a request answered 404; and no step of a request changes the client or
\* the torrent the proxy holds.
C26_DownloadOnceBeforeContent ==
    /\ [](\A h \in Handlers :
             LET r == handlers[h]
             IN /\ (r.pc = "done" /\ Matched(r)) =>
                       Count(r.calls, "Download") = 1
                /\ r.reader =>
                       (/\ Matched(r)
                        /\ Count(r.calls, "ServeContent") = 1
                        /\ Position(r.calls, "Download", 1) > 0
                        /\ Position(r.calls, "Download", 1)
                               < Position(r.calls, "ServeContent", 1))
                /\ (r.call = "ServeHTTP" /\ (r.path = <<"/">> \/ r.code = 404)) =>
                       (Count(r.calls, "Download") = 0 /\ ~r.reader)
                /\ ~Matched(r) => r.calls = <<>>)
    /\ [][handlers' # handlers =>
             (/\ proxy'.client = proxy.client
              /\ proxy'.torrent = proxy.torrent)]_vars

\* One request was answered with the content of its file and another
\* with 404.
C26_Witness ==
    \E h \in Handlers, g \in Handlers :
        /\ handlers[h].pc = "done"
        /\ Matched(handlers[h])
        /\ handlers[h].reader
        /\ handlers[h].code = 200
        /\ handlers[h].calls = <<"Download", "NewReader", "ServeContent">>
        /\ handlers[g].pc = "done"
        /\ handlers[g].call = "ServeHTTP"
        /\ handlers[g].code = 404

====
